---------------------------- MODULE Spec2Model ----------------------------
(***************************************************************************)
(* Model of .buildkite/pipeline.py: the Buildkite pipeline generator of    *)
(* the beats repository.                                                   *)
(*                                                                         *)
(* Python strings that the program inspects (project, stage and category   *)
(* names, the trigger comment, the label list, changed files and glob      *)
(* patterns) are sequences of one-character strings, so that "in",         *)
(* "==", "<", str.split, str.startswith and fnmatch are computed           *)
(* character by character. Strings the program only copies (commands,      *)
(* images) are opaque TLA+ strings.                                        *)
(*                                                                         *)
(* A Python value that may be None is a record [some, val]; the value      *)
(* returned by the selection functions is one of "True", "False", "None".  *)
(***************************************************************************)
EXTENDS Integers, Sequences, FiniteSets, TLC

VARIABLES
    BUILDKITE_PULL_REQUEST,       \* os.getenv('BUILDKITE_PULL_REQUEST')
    GITHUB_PR_TRIGGER_COMMENT,    \* os.getenv('GITHUB_PR_TRIGGER_COMMENT')
    GITHUB_PR_LABELS,             \* os.getenv('GITHUB_PR_LABELS')
    diff_stdout,                  \* what "git diff --name-only" prints, split in lines
    changed_files,                \* the module global of line 165
    diff_runs,                    \* number of subprocess.run calls made so far
    stdout,                       \* what the process has printed so far
    call,                         \* the last selection call made directly, and its result
    doc,                          \* doc["projects"] of the root manifest
    project_files,                \* project name -> its buildkite.yml (or its absence)
    pc,                           \* where main() is
    next_project,                 \* index in doc of the project the loop handles next
    groups,                       \* main's accumulator of mandatory groups
    extended_groups,              \* main's accumulator of extended groups
    all_groups,                   \* main's merged list, handed to Pipeline
    selected,                     \* indices in doc for which a selection function ran
    raised                        \* the uncaught exception, "" when there is none

vars == <<BUILDKITE_PULL_REQUEST, GITHUB_PR_TRIGGER_COMMENT, GITHUB_PR_LABELS,
          diff_stdout, changed_files, diff_runs, stdout, call, doc,
          project_files, pc, next_project, groups, extended_groups,
          all_groups, selected, raised>>

env_vars == <<BUILDKITE_PULL_REQUEST, GITHUB_PR_TRIGGER_COMMENT,
              GITHUB_PR_LABELS, diff_stdout>>

main_vars == <<doc, project_files, pc, next_project, groups, extended_groups,
               all_groups, selected, raised>>

---------------------------------------------------------------------------
(* Bounds of the model.                                                    *)

\* Longest root manifest project list.
MaxProjects == 3

\* Most runs of the external diff command followed in the direct-call model.
MaxDiffRuns == 3

---------------------------------------------------------------------------
(* Python strings and optional values.                                     *)

\* The characters the model's strings use, in code point order.
AsciiOrder ==
    <<" ", "*", "-", "/", ":", "?", "T", "X",
      "a", "b", "c", "d", "e", "f", "g", "h", "i", "k", "l", "m", "n", "o",
      "r", "s", "t", "u", "x", "y">>

Ord(c) == CHOOSE k \in 1..Len(AsciiOrder) : AsciiOrder[k] = c

\* s < t on Python strings: lexicographic on code points.
RECURSIVE StrLt(_, _)
StrLt(s, t) ==
    IF t = <<>> THEN FALSE
    ELSE IF s = <<>> THEN TRUE
    ELSE IF Head(s) = Head(t) THEN StrLt(Tail(s), Tail(t))
    ELSE Ord(Head(s)) < Ord(Head(t))

\* needle in hay
Contains(needle, hay) ==
    \E k \in 0..(Len(hay) - Len(needle)) :
        SubSeq(hay, k + 1, k + Len(needle)) = needle

\* s.startswith(prefix)
StartsWith(s, prefix) ==
    /\ Len(prefix) <= Len(s)
    /\ SubSeq(s, 1, Len(prefix)) = prefix

\* s.split(): the maximal runs of non-blank characters, in order.
RECURSIVE SplitFrom(_, _, _)
SplitFrom(s, word, acc) ==
    IF s = <<>> THEN (IF word = <<>> THEN acc ELSE Append(acc, word))
    ELSE IF Head(s) = " "
         THEN SplitFrom(Tail(s), <<>>,
                        IF word = <<>> THEN acc ELSE Append(acc, word))
         ELSE SplitFrom(Tail(s), Append(word, Head(s)), acc)

Split(s) == SplitFrom(s, <<>>, <<>>)

InList(x, list) == \E k \in 1..Len(list) : list[k] = x

None == [some |-> FALSE, val |-> <<>>]
Some(v) == [some |-> TRUE, val |-> v]

\* Python truth value of an optional string or list: None and the empty
\* value are false.
Truthy(o) == o.some /\ o.val # <<>>

PyBool(b) == IF b THEN "True" ELSE "False"

\* Python truth value of a returned True / False / None.
IsTrue(r) == r = "True"

---------------------------------------------------------------------------
(* String literals of the program and of its inputs.                       *)

s_false == <<"f", "a", "l", "s", "e">>
s_true == <<"t", "r", "u", "e">>
s_mandatory == <<"m", "a", "n", "d", "a", "t", "o", "r", "y">>
s_extended == <<"e", "x", "t", "e", "n", "d", "e", "d">>
s_buildkite_test ==
    <<"b", "u", "i", "l", "d", "k", "i", "t", "e", " ", "t", "e", "s", "t">>
s_slash_test == <<"/", "t", "e", "s", "t", " ">>

s_filebeat == <<"f", "i", "l", "e", "b", "e", "a", "t">>
s_metricbeat == <<"m", "e", "t", "r", "i", "c", "b", "e", "a", "t">>
s_file == <<"f", "i", "l", "e">>
s_unitTest == <<"u", "n", "i", "t", "T", "e", "s", "t">>
s_lint == <<"l", "i", "n", "t">>
s_mandatoryX == s_mandatory \o <<"X">>

---------------------------------------------------------------------------
(* Entity model.                                                           *)

\* An Agent subclass instance; fetch_stage leaves the agent None for an
\* unknown provider.
Agent(class, image) == [class |-> class, image |-> image]

NoAgent == Agent("None", "")

\* Step(...) with __post_init__.
Step(command, agent, name, project, category) ==
    [command  |-> command,
     agent    |-> agent,
     name     |-> name,
     project  |-> project,
     category |-> category,
     label    |-> name,
     comment  |-> s_slash_test \o project \o <<" ">> \o name]

\* Step.__lt__
Step_lt(self, other) == StrLt(self.name, other.name)

\* Group(...); id stands for the identity of the Python object (dataclass
\* equality does not tell two groups with equal fields apart, "is" does).
Group(project, category, steps, id) ==
    [project |-> project, category |-> category, steps |-> steps, id |-> id]

\* Group.__lt__ written with "<=".
Group_le(self, other) == ~StrLt(other.project, self.project)

\* Group.__lt__
Group_lt(self, other) == StrLt(self.project, other.project)

\* The builtin sorted(), which compares with "<" alone and is stable, on
\* the first n elements of a list; less[a][b] is list[a] < list[b]. The
\* result lists indices of the input. Element n goes behind every element
\* it is not less than.
RECURSIVE sorted_indices(_, _)
sorted_indices(n, less) ==
    IF n = 0 THEN <<>>
    ELSE LET s == sorted_indices(n - 1, less)
             k == IF \E j \in 1..Len(s) : less[n][s[j]]
                  THEN CHOOSE j \in 1..Len(s) :
                           /\ less[n][s[j]]
                           /\ \A i \in 1..(j - 1) : ~less[n][s[i]]
                  ELSE Len(s) + 1
         IN  SubSeq(s, 1, k - 1) \o <<n>> \o SubSeq(s, k, Len(s))

sorted(list, less) ==
    LET order == sorted_indices(Len(list), less) IN
    [k \in 1..Len(list) |-> list[order[k]]]

\* sorted(self.steps)
sorted_steps(steps) ==
    sorted(steps, [a \in 1..Len(steps) |->
                      [b \in 1..Len(steps) |-> Step_lt(steps[a], steps[b])]])

\* sorted(groups), sorted(extended_groups)
sorted_groups(list) ==
    sorted(list, [a \in 1..Len(list) |->
                     [b \in 1..Len(list) |-> Group_lt(list[a], list[b])]])

\* A dict is a sequence of <<key, value>> pairs, in insertion order.
AWSAgent_create_entity(self) ==
    <<<<"agents", <<<<"provider", "aws">>,
                    <<"imagePrefix", self.image>>,
                    <<"instanceType", "t4g.large">>>>>>>>

GCPAgent_create_entity(self) ==
    <<<<"agents", <<<<"provider", "gcp">>, <<"image", self.image>>>>>>>>

OrkaAgent_create_entity(self) ==
    <<<<"agents", <<<<"provider", "orka">>,
                    <<"imagePrefix", self.image>>>>>>>>

\* self.agent.create_entity(), dispatched on the class of the agent.
Agent_create_entity(self) ==
    CASE self.class = "AWSAgent" -> AWSAgent_create_entity(self)
      [] self.class = "GCPAgent" -> GCPAgent_create_entity(self)
      [] self.class = "OrkaAgent" -> OrkaAgent_create_entity(self)

\* Step.create_entity raises AttributeError on an agent that is None.
Step_create_entity_raises(self) == self.agent.class = "None"

Step_create_entity(self) ==
    <<<<"label", self.project \o <<" ">> \o self.name>>,
      <<"command", <<self.command>>>>,
      <<"notify",
        <<<<<<"github_commit_status",
              <<<<"context", self.project \o <<":", " ">> \o self.name>>>>
        >>>>>>>>>>
    \o Agent_create_entity(self.agent)

\* What Group.create_entity returns: None, or the dict of the group.
NoneEntity == [is_none |-> TRUE, dict |-> <<>>]

Group_create_entity_raises(self) ==
    \E k \in 1..Len(self.steps) : Step_create_entity_raises(self.steps[k])

Group_create_entity(self) ==
    IF Len(self.steps) = 0 THEN NoneEntity
    ELSE [is_none |-> FALSE,
          dict |->
            <<<<"group", self.project \o <<" ">> \o self.category>>,
              <<"key", self.project \o <<"-">> \o self.category>>,
              <<"steps",
                LET ordered == sorted_steps(self.steps) IN
                [k \in 1..Len(ordered) |-> Step_create_entity(ordered[k])]
              >>>>]

Pipeline_create_entity_raises(pipeline_groups) ==
    \E k \in 1..Len(pipeline_groups) :
        Group_create_entity_raises(pipeline_groups[k])

\* The value of the "steps" key of the dict Pipeline.create_entity returns.
Pipeline_create_entity(pipeline_groups) ==
    [k \in 1..Len(pipeline_groups) |->
        Group_create_entity(pipeline_groups[k])]

---------------------------------------------------------------------------
(* Selection engine.                                                       *)

\* is_pr with the comparison with "false" lost: any value set counts as a
\* pull request.
is_pr_when_set == BUILDKITE_PULL_REQUEST.some

is_pr == BUILDKITE_PULL_REQUEST # Some(s_false)

\* step_comment returning False where no comment is set.
step_comment_closed(step) ==
    LET comment == GITHUB_PR_TRIGGER_COMMENT IN
    IF Truthy(comment)
    THEN LET comment_prefix == s_buildkite_test \o <<" ">> \o step.project IN
         IF step.category = s_mandatory /\ comment_prefix = comment.val
         THEN "True"
         ELSE PyBool(Contains(comment_prefix \o <<" ">> \o step.name,
                              comment.val))
    ELSE "False"

step_comment(step) ==
    LET comment == GITHUB_PR_TRIGGER_COMMENT IN
    IF Truthy(comment)
    THEN LET comment_prefix == s_buildkite_test \o <<" ">> \o step.project IN
         IF step.category = s_mandatory /\ comment_prefix = comment.val
         THEN "True"
         ELSE PyBool(Contains(comment_prefix \o <<" ">> \o step.name,
                              comment.val))
    ELSE "True"

\* group_comment comparing the comment of a mandatory group with "==" in
\* place of "in".
group_comment_equal(group) ==
    LET comment == GITHUB_PR_TRIGGER_COMMENT IN
    IF Truthy(comment)
    THEN LET comment_prefix == s_buildkite_test IN
         IF group.category = s_mandatory
         THEN PyBool(comment_prefix \o <<" ">> \o group.project = comment.val)
         ELSE PyBool(Contains(comment_prefix \o <<" ">> \o group.project
                                  \o <<" ">> \o group.category,
                              comment.val))
    ELSE "None"

group_comment(group) ==
    LET comment == GITHUB_PR_TRIGGER_COMMENT IN
    IF Truthy(comment)
    THEN LET comment_prefix == s_buildkite_test IN
         IF group.category = s_mandatory
         THEN PyBool(Contains(comment_prefix \o <<" ">> \o group.project,
                              comment.val))
         ELSE PyBool(Contains(comment_prefix \o <<" ">> \o group.project
                                  \o <<" ">> \o group.category,
                              comment.val))
    ELSE "None"

\* The part of the process state that get_pr_changeset reads and writes.
World == [changed_files |-> changed_files,
          diff_runs     |-> diff_runs,
          stdout        |-> stdout]

\* print("Changed files: {}".format(changed_files))
ChangedFilesLine(files) == [what |-> "Changed files", data |-> files]

\* Returns [ret, world]: the list returned and the state left behind.
get_pr_changeset(w) ==
    IF ~Truthy(w.changed_files)
    THEN [ret   |-> diff_stdout,
          world |-> [changed_files |-> Some(diff_stdout),
                     diff_runs     |-> w.diff_runs + 1,
                     stdout        |-> Append(w.stdout,
                                              ChangedFilesLine(diff_stdout))]]
    ELSE [ret |-> w.changed_files.val, world |-> w]

\* fnmatch.fnmatch(name, pat) for patterns made of literal characters, "*"
\* and "?" (no pattern of the model holds a "[").
RECURSIVE fnmatch(_, _)
fnmatch(name, pat) ==
    IF pat = <<>> THEN name = <<>>
    ELSE IF Head(pat) = "*"
         THEN \/ fnmatch(name, Tail(pat))
              \/ (name # <<>> /\ fnmatch(Tail(name), pat))
    ELSE IF name = <<>> THEN FALSE
    ELSE /\ (Head(pat) = "?" \/ Head(pat) = Head(name))
         /\ fnmatch(Tail(name), Tail(pat))

filter_files_by_glob(files, patterns) ==
    \E p \in 1..Len(patterns) :
        \E f \in 1..Len(files) : fnmatch(files[f], patterns[p])

is_in_pr_changeset(project_changeset_filters, w) ==
    LET changeset == get_pr_changeset(w) IN
    [ret   |-> filter_files_by_glob(changeset.ret, project_changeset_filters),
     world |-> changeset.world]

\* is_step_enabled looking for the label in the unsplit label string.
is_step_enabled_unsplit(step) ==
    IF ~is_pr THEN "True"
    ELSE IF IsTrue(step_comment(step)) THEN "True"
    ELSE LET labels_env == GITHUB_PR_LABELS IN
         IF /\ Truthy(labels_env)
            /\ Contains(step.project \o <<"-">> \o step.name, labels_env.val)
         THEN "True"
         ELSE "False"

is_step_enabled(step) ==
    IF ~is_pr THEN "True"
    ELSE IF IsTrue(step_comment(step)) THEN "True"
    ELSE LET labels_env == GITHUB_PR_LABELS IN
         IF /\ Truthy(labels_env)
            /\ InList(step.project \o <<"-">> \o step.name,
                      Split(labels_env.val))
         THEN "True"
         ELSE "False"

\* is_group_enabled without the test of the category.
is_group_enabled_any_category(group, changeset_filters, w) ==
    IF ~is_pr THEN [ret |-> "True", world |-> w]
    ELSE LET in_changeset == is_in_pr_changeset(changeset_filters, w) IN
         IF in_changeset.ret
         THEN [ret |-> "True", world |-> in_changeset.world]
         ELSE [ret |-> group_comment(group), world |-> in_changeset.world]

\* Returns [ret, world].
is_group_enabled(group, changeset_filters, w) ==
    IF ~is_pr THEN [ret |-> "True", world |-> w]
    ELSE LET in_changeset == is_in_pr_changeset(changeset_filters, w) IN
         IF in_changeset.ret /\ StartsWith(group.category, s_mandatory)
         THEN [ret |-> "True", world |-> in_changeset.world]
         ELSE [ret |-> group_comment(group), world |-> in_changeset.world]

---------------------------------------------------------------------------
(* Inputs.                                                                 *)

Words2(a, b) == a \o <<" ">> \o b
Words3(a, b, c) == a \o <<" ">> \o b \o <<" ">> \o c

PullRequestValues == {None, Some(s_false), Some(s_true)}

TriggerComments ==
    {None,
     Some(<<>>),
     Some(Words2(s_buildkite_test, s_filebeat)),
     Some(Words3(s_buildkite_test, s_filebeat, s_unitTest)),
     Some(Words3(s_buildkite_test, s_filebeat, s_extended)),
     Some(Words3(s_buildkite_test, s_metricbeat, s_mandatoryX)),
     Some(s_slash_test \o s_filebeat)}

LabelLists ==
    {None,
     Some(<<>>),
     Some(s_filebeat \o <<"-">> \o s_unitTest),
     Some(s_metricbeat \o <<"-">> \o s_lint \o <<" ", " ">>
              \o s_filebeat \o <<"-">> \o s_unitTest),
     Some(s_filebeat \o <<"-">> \o s_unitTest \o <<"X">>)}

DiffOutputs ==
    {<<>>,
     <<s_filebeat \o <<"/", "a">>>>,
     <<<<"d", "o", "c", "s", "/", "a">>, s_metricbeat \o <<"/", "a">>>>}

ChangesetFilters ==
    {<<>>,
     <<s_filebeat \o <<"/", "*">>>>,
     <<<<"x", "/", "?">>, <<"m", "*", "/", "a">>>>}

ProjectNames == {s_filebeat, s_metricbeat, s_file}
StageNames == {s_unitTest, s_lint}
Categories == {s_mandatory, s_extended, s_mandatoryX}

---------------------------------------------------------------------------
(* Direct calls of the selection functions, in any order and with any      *)
(* argument, in one process.                                               *)

DirectSteps ==
    {Step("make", Agent("GCPAgent", "ubuntu"), n, p, c) :
         n \in StageNames, p \in ProjectNames, c \in Categories}

DirectGroups ==
    {Group(p, c, <<>>, 0) : p \in ProjectNames, c \in Categories}

NoStep == Step("", NoAgent, <<>>, <<>>, <<>>)
NoGroup == Group(<<>>, <<>>, <<>>, 0)

Call(fn, step, group, filters, ret, files) ==
    [fn |-> fn, step |-> step, group |-> group, filters |-> filters,
     ret |-> ret, files |-> files]

InitEnv ==
    /\ BUILDKITE_PULL_REQUEST \in PullRequestValues
    /\ GITHUB_PR_TRIGGER_COMMENT \in TriggerComments
    /\ GITHUB_PR_LABELS \in LabelLists
    /\ diff_stdout \in DiffOutputs
    /\ changed_files = None
    /\ diff_runs = 0
    /\ stdout = <<>>
    /\ call = Call("", NoStep, NoGroup, <<>>, "None", <<>>)

InitDirect ==
    /\ InitEnv
    /\ doc = <<>>
    /\ project_files = <<>>
    /\ pc = "direct"
    /\ next_project = 1
    /\ groups = <<>>
    /\ extended_groups = <<>>
    /\ all_groups = <<>>
    /\ selected = {}
    /\ raised = ""

SetWorld(w) ==
    /\ changed_files' = w.changed_files
    /\ diff_runs' = w.diff_runs
    /\ stdout' = w.stdout

CallStepEnabled ==
    /\ pc = "direct"
    /\ \E step \in DirectSteps :
           call' = Call("is_step_enabled", step, NoGroup, <<>>,
                        is_step_enabled(step), <<>>)
    /\ UNCHANGED <<env_vars, main_vars, changed_files, diff_runs, stdout>>

CallGroupEnabled ==
    /\ pc = "direct"
    /\ diff_runs < MaxDiffRuns
    /\ \E group \in DirectGroups, filters \in ChangesetFilters :
           LET r == is_group_enabled(group, filters, World) IN
           /\ call' = Call("is_group_enabled", NoStep, group, filters,
                           r.ret, <<>>)
           /\ SetWorld(r.world)
    /\ UNCHANGED <<env_vars, main_vars>>

CallGetChangeset ==
    /\ pc = "direct"
    /\ diff_runs < MaxDiffRuns
    /\ LET r == get_pr_changeset(World) IN
       /\ call' = Call("get_pr_changeset", NoStep, NoGroup, <<>>, "None",
                       r.ret)
       /\ SetWorld(r.world)
    /\ UNCHANGED <<env_vars, main_vars>>

CallIsInChangeset ==
    /\ pc = "direct"
    /\ diff_runs < MaxDiffRuns
    /\ \E filters \in ChangesetFilters :
           LET r == is_in_pr_changeset(filters, World) IN
           /\ call' = Call("is_in_pr_changeset", NoStep, NoGroup, filters,
                           PyBool(r.ret), <<>>)
           /\ SetWorld(r.world)
    /\ UNCHANGED <<env_vars, main_vars>>

NextDirect ==
    \/ CallStepEnabled
    \/ CallGroupEnabled
    \/ CallGetChangeset
    \/ CallIsInChangeset

SpecDirect == InitDirect /\ [][NextDirect]_vars

---------------------------------------------------------------------------
(* Project manifests: what yaml.load returns for {project}/buildkite.yml.  *)

\* One entry of a stages mapping; has_x tells whether key x is present.
Stage(name, provider, has_platform, has_command) ==
    [name         |-> name,
     has_provider |-> provider # "",
     provider     |-> provider,
     has_platform |-> has_platform,
     platform     |-> "ubuntu",
     has_command  |-> has_command,
     command      |-> "make"]

\* A mapping is a sequence of entries in document order.
Manifest(exists, has_m, mandatory, has_e, extended, has_w, changeset) ==
    [exists        |-> exists,
     has_mandatory |-> has_m,
     mandatory     |-> mandatory,
     has_extended  |-> has_e,
     extended      |-> extended,
     has_when      |-> has_w,
     changeset     |-> changeset]

MandatoryStages ==
    <<Stage(s_unitTest, "", TRUE, TRUE), Stage(s_lint, "aws", TRUE, TRUE)>>

ExtendedStages == <<Stage(s_unitTest, "orka", TRUE, TRUE)>>

GlobOf(project) == <<project \o <<"/", "*">>>>

\* The manifests a project may have: none, two well-formed ones (the second
\* with no extended stage), and malformed ones (a missing stages or
\* stages.mandatory, a missing stages.extended, a missing when or
\* when.changeset, a mandatory stage without command after a good one, an
\* extended stage with an unknown provider).
Manifests(project) ==
    {Manifest(FALSE, FALSE, <<>>, FALSE, <<>>, FALSE, <<>>),
     Manifest(TRUE, TRUE, MandatoryStages, TRUE, ExtendedStages, TRUE,
              GlobOf(project)),
     Manifest(TRUE, TRUE, MandatoryStages, TRUE, <<>>, TRUE,
              GlobOf(project)),
     Manifest(TRUE, FALSE, <<>>, TRUE, ExtendedStages, TRUE,
              GlobOf(project)),
     Manifest(TRUE, TRUE, MandatoryStages, FALSE, <<>>, TRUE,
              GlobOf(project)),
     Manifest(TRUE, TRUE, MandatoryStages, TRUE, ExtendedStages, FALSE,
              <<>>),
     Manifest(TRUE, TRUE,
              <<Stage(s_lint, "gcp", TRUE, TRUE),
                Stage(s_unitTest, "gcp", TRUE, FALSE)>>,
              TRUE, ExtendedStages, TRUE, GlobOf(project)),
     Manifest(TRUE, TRUE, MandatoryStages, TRUE,
              <<Stage(s_lint, "azure", FALSE, TRUE)>>, TRUE,
              GlobOf(project))}

---------------------------------------------------------------------------
(* Assembly.                                                               *)

\* Returns [raised, step].
fetch_stage(name, stage, project, category) ==
    LET known == ~stage.has_provider
                     \/ stage.provider \in {"gcp", "aws", "orka"}
        class == IF ~stage.has_provider \/ stage.provider = "gcp"
                 THEN "GCPAgent"
                 ELSE IF stage.provider = "aws" THEN "AWSAgent"
                 ELSE "OrkaAgent"
        agent == IF known THEN Agent(class, stage.platform) ELSE NoAgent
    IN  IF (known /\ ~stage.has_platform) \/ ~stage.has_command
        THEN [raised |-> "KeyError", step |-> NoStep]
        ELSE [raised |-> "",
              step   |-> Step(stage.command, agent, name, project, category)]

\* The loop of fetch_group from stage k on. Returns [raised, steps, calls]:
\* calls counts the is_step_enabled calls made.
RECURSIVE fetch_steps(_, _, _, _, _, _)
fetch_steps(stages, k, project, category, steps, calls) ==
    IF k > Len(stages)
    THEN [raised |-> "", steps |-> steps, calls |-> calls]
    ELSE LET fetched == fetch_stage(stages[k].name, stages[k], project,
                                    category)
         IN  IF fetched.raised # ""
             THEN [raised |-> fetched.raised, steps |-> steps,
                   calls |-> calls]
             ELSE fetch_steps(stages, k + 1, project, category,
                              IF IsTrue(is_step_enabled(fetched.step))
                              THEN Append(steps, fetched.step)
                              ELSE steps,
                              calls + 1)

\* Returns [raised, group, calls]; id is the identity of the new Group.
fetch_group(stages, project, category, id) ==
    LET r == fetch_steps(stages, 1, project, category, <<>>, 0) IN
    [raised |-> r.raised,
     group  |-> Group(project, category, r.steps, id),
     calls  |-> r.calls]

\* One iteration of main's loop over doc["projects"], for the project at
\* index k whose manifest file exists. Returns the state the iteration
\* leaves, and in raised the exception that ended it ("" when none did).
project_iteration(k) ==
    LET project == doc[k]
        project_obj == project_files[project]
        Result(exc, w, gs, egs, calls) ==
            [raised          |-> exc,
             world           |-> w,
             groups          |-> gs,
             extended_groups |-> egs,
             selected        |-> IF calls > 0 THEN selected \cup {k}
                                 ELSE selected]
        mandatory == fetch_group(project_obj.mandatory, project, s_mandatory,
                                 2 * k - 1)
        enabled1 == is_group_enabled(mandatory.group, project_obj.changeset,
                                     World)
        groups1 == IF IsTrue(enabled1.ret)
                   THEN Append(groups, mandatory.group) ELSE groups
        extended == fetch_group(project_obj.extended, project, s_extended,
                                2 * k)
        enabled2 == is_group_enabled(extended.group, project_obj.changeset,
                                     enabled1.world)
        extended_groups2 == IF IsTrue(enabled2.ret)
                            THEN Append(extended_groups, extended.group)
                            ELSE extended_groups
    IN  IF ~project_obj.has_mandatory
        THEN Result("KeyError", World, groups, extended_groups, 0)
        ELSE IF mandatory.raised # ""
        THEN Result(mandatory.raised, World, groups, extended_groups,
                    mandatory.calls)
        ELSE IF ~project_obj.has_when
        THEN Result("KeyError", World, groups, extended_groups,
                    mandatory.calls)
        ELSE IF ~project_obj.has_extended
        THEN Result("KeyError", enabled1.world, groups1, extended_groups,
                    mandatory.calls + 1)
        ELSE IF extended.raised # ""
        THEN Result(extended.raised, enabled1.world, groups1,
                    extended_groups, mandatory.calls + 1 + extended.calls)
        ELSE Result("", enabled2.world, groups1, extended_groups2,
                    mandatory.calls + 2 + extended.calls)

\* The project lists of the root manifest: up to MaxProjects names, a name
\* may be listed twice.
RECURSIVE SeqsUpTo(_, _)
SeqsUpTo(S, n) ==
    IF n = 0 THEN {<<>>}
    ELSE LET shorter == SeqsUpTo(S, n - 1) IN
         shorter \cup {Append(s, x) : s \in shorter, x \in S}

MainProjectNames == {s_filebeat, s_metricbeat}

MainPullRequestValues == {Some(s_false), Some(s_true)}

MainTriggerComments ==
    {None,
     Some(Words2(s_buildkite_test, s_filebeat)),
     Some(Words3(s_buildkite_test, s_metricbeat, s_extended))}

MainLabelLists == {None, Some(s_filebeat \o <<"-">> \o s_unitTest)}

MainDiffOutputs == {<<>>, <<s_filebeat \o <<"/", "a">>>>}

\* The state in which main() has read the root manifest.
Init ==
    /\ BUILDKITE_PULL_REQUEST \in MainPullRequestValues
    /\ GITHUB_PR_TRIGGER_COMMENT \in MainTriggerComments
    /\ GITHUB_PR_LABELS \in MainLabelLists
    /\ diff_stdout \in MainDiffOutputs
    /\ changed_files = None
    /\ diff_runs = 0
    /\ stdout = <<>>
    /\ call = Call("", NoStep, NoGroup, <<>>, "None", <<>>)
    /\ doc \in SeqsUpTo(MainProjectNames, MaxProjects)
    /\ project_files \in {f \in [MainProjectNames ->
                                    UNION {Manifests(p) : p \in MainProjectNames}] :
                              \A p \in MainProjectNames : f[p] \in Manifests(p)}
    /\ pc = "loop"
    /\ next_project = 1
    /\ groups = <<>>
    /\ extended_groups = <<>>
    /\ all_groups = <<>>
    /\ selected = {}
    /\ raised = ""

\* The loop without the os.path.isfile test: open() raises on the missing
\* file.
OpenMissingProject ==
    /\ pc = "loop"
    /\ next_project <= Len(doc)
    /\ ~project_files[doc[next_project]].exists
    /\ raised' = "FileNotFoundError"
    /\ pc' = "aborted"
    /\ UNCHANGED <<env_vars, changed_files, diff_runs, stdout, call, doc,
                   project_files, next_project, groups, extended_groups,
                   all_groups, selected>>

\* os.path.isfile(project_file) is false: continue.
SkipProject ==
    /\ pc = "loop"
    /\ next_project <= Len(doc)
    /\ ~project_files[doc[next_project]].exists
    /\ next_project' = next_project + 1
    /\ UNCHANGED <<env_vars, changed_files, diff_runs, stdout, call, doc,
                   project_files, pc, groups, extended_groups, all_groups,
                   selected, raised>>

\* The loop body runs to its end for the next project.
ProcessProject ==
    /\ pc = "loop"
    /\ next_project <= Len(doc)
    /\ project_files[doc[next_project]].exists
    /\ LET r == project_iteration(next_project) IN
       /\ r.raised = ""
       /\ SetWorld(r.world)
       /\ groups' = r.groups
       /\ extended_groups' = r.extended_groups
       /\ selected' = r.selected
    /\ next_project' = next_project + 1
    /\ UNCHANGED <<env_vars, call, doc, project_files, pc, all_groups,
                   raised>>

\* The loop body raises: the exception leaves main() and ends the process.
AbortProject ==
    /\ pc = "loop"
    /\ next_project <= Len(doc)
    /\ project_files[doc[next_project]].exists
    /\ LET r == project_iteration(next_project) IN
       /\ r.raised # ""
       /\ SetWorld(r.world)
       /\ groups' = r.groups
       /\ extended_groups' = r.extended_groups
       /\ selected' = r.selected
       /\ raised' = r.raised
    /\ pc' = "aborted"
    /\ UNCHANGED <<env_vars, call, doc, project_files, next_project,
                   all_groups>>

\* The merged list of lines 293 to 297.
merged_groups == sorted_groups(groups) \o sorted_groups(extended_groups)

\* print(yaml.dump(Pipeline(all_groups).create_entity()))
PipelineDocument(entity) == [what |-> "pipeline", data |-> entity]

\* After the loop: merge, render and print the pipeline.
Finish ==
    /\ pc = "loop"
    /\ next_project > Len(doc)
    /\ all_groups' = merged_groups
    /\ ~Pipeline_create_entity_raises(merged_groups)
    /\ stdout' = Append(stdout,
                        PipelineDocument(Pipeline_create_entity(merged_groups)))
    /\ pc' = "done"
    /\ UNCHANGED <<env_vars, changed_files, diff_runs, call, doc,
                   project_files, next_project, groups, extended_groups,
                   selected, raised>>

\* After the loop: rendering raises on a step whose agent is None, before
\* anything is printed.
FinishRaise ==
    /\ pc = "loop"
    /\ next_project > Len(doc)
    /\ all_groups' = merged_groups
    /\ Pipeline_create_entity_raises(merged_groups)
    /\ raised' = "AttributeError"
    /\ pc' = "aborted"
    /\ UNCHANGED <<env_vars, changed_files, diff_runs, stdout, call, doc,
                   project_files, next_project, groups, extended_groups,
                   selected>>

Next ==
    \/ SkipProject
    \/ ProcessProject
    \/ AbortProject
    \/ Finish
    \/ FinishRaise

Spec == Init /\ [][Next]_vars

---------------------------------------------------------------------------
(* Properties of the selection functions, over SpecDirect.                 *)

StepCalled == call.fn = "is_step_enabled"
GroupCalled == call.fn = "is_group_enabled"

NoComment == ~Truthy(GITHUB_PR_TRIGGER_COMMENT)
NoLabels == ~Truthy(GITHUB_PR_LABELS)

\* "buildkite test {project}"
TestProject(project) == Words2(s_buildkite_test, project)

\* The trigger comment contains the text.
CommentContains(text) ==
    /\ Truthy(GITHUB_PR_TRIGGER_COMMENT)
    /\ Contains(text, GITHUB_PR_TRIGGER_COMMENT.val)

\* The trigger comment is exactly the text.
CommentIs(text) == GITHUB_PR_TRIGGER_COMMENT = Some(text)

\* The label "{project}-{name}" of the called step is one of the labels.
StepLabelPresent ==
    /\ Truthy(GITHUB_PR_LABELS)
    /\ InList(call.step.project \o <<"-">> \o call.step.name,
              Split(GITHUB_PR_LABELS.val))

\* Some file of the changeset matches some pattern given to the call.
ChangesetMatches ==
    \E p \in 1..Len(call.filters) :
        \E f \in 1..Len(diff_stdout) :
            fnmatch(diff_stdout[f], call.filters[p])

\* C1: outside a pull request (BUILDKITE_PULL_REQUEST is "false"),
\* is_step_enabled and is_group_enabled return True for every step, group
\* and pattern list, whatever the comment, the labels and the changeset.
C1_NonPrEnablesAll ==
    (BUILDKITE_PULL_REQUEST = Some(s_false) /\ (StepCalled \/ GroupCalled))
        => call.ret = "True"

\* An extended group, no changeset match, a comment about another project:
\* enabled all the same outside a pull request.
C1_Witness ==
    /\ BUILDKITE_PULL_REQUEST = Some(s_false)
    /\ GroupCalled
    /\ call.group.category = s_extended
    /\ call.group.project = s_file
    /\ CommentIs(Words3(s_buildkite_test, s_metricbeat, s_mandatoryX))
    /\ ~ChangesetMatches
    /\ call.ret = "True"

\* C2, as claimed: in a pull request with no comment and no labels,
\* is_step_enabled and is_group_enabled enable no step and no group.
C2_FailsClosed ==
    (is_pr /\ NoComment /\ NoLabels /\ (StepCalled \/ GroupCalled))
        => ~IsTrue(call.ret)

\* C2, amended: in a pull request with no comment and no labels,
\* is_step_enabled returns True for every step, and is_group_enabled
\* returns True for the groups whose category starts with "mandatory" and
\* whose patterns match the changeset, and None for every other group.
C2_NoCommentNoLabels ==
    (is_pr /\ NoComment /\ NoLabels)
        => /\ StepCalled => call.ret = "True"
           /\ GroupCalled =>
                  call.ret = IF /\ ChangesetMatches
                                /\ StartsWith(call.group.category, s_mandatory)
                             THEN "True" ELSE "None"

C2_Witness ==
    /\ is_pr /\ NoComment /\ NoLabels
    /\ GroupCalled
    /\ call.group.category = s_extended
    /\ ChangesetMatches
    /\ call.ret = "None"

\* C3, as claimed: in a pull request with a trigger comment, a step is
\* enabled exactly when the comment contains "buildkite test {project}
\* {name}" or the step is mandatory and the comment is exactly "buildkite
\* test {project}", whatever the labels.
C3_CommentOnly ==
    (is_pr /\ ~NoComment /\ StepCalled)
        => (IsTrue(call.ret) <=>
                \/ CommentContains(Words2(TestProject(call.step.project),
                                          call.step.name))
                \/ /\ call.step.category = s_mandatory
                   /\ CommentIs(TestProject(call.step.project)))

\* C3, amended: in a pull request with a trigger comment, a step is
\* enabled exactly when the comment matches one of the two forms or the
\* label "{project}-{name}" is one of the blank-separated labels.
C3_CommentOrLabel ==
    (is_pr /\ ~NoComment /\ StepCalled)
        => (call.ret = PyBool(
                \/ CommentContains(Words2(TestProject(call.step.project),
                                          call.step.name))
                \/ /\ call.step.category = s_mandatory
                   /\ CommentIs(TestProject(call.step.project))
                \/ StepLabelPresent))

\* A comment that matches neither form, and the label of the step.
C3_Witness ==
    /\ is_pr
    /\ StepCalled
    /\ CommentIs(Words3(s_buildkite_test, s_filebeat, s_extended))
    /\ call.step.project = s_filebeat
    /\ call.step.name = s_unitTest
    /\ call.step.category = s_extended
    /\ StepLabelPresent
    /\ call.ret = "True"

\* C4, as claimed: in a pull request with no comment and with labels, a
\* step is enabled exactly when "{project}-{name}" is one of the labels.
C4_LabelDecides ==
    (is_pr /\ NoComment /\ ~NoLabels /\ StepCalled)
        => (IsTrue(call.ret) <=> StepLabelPresent)

\* C4, amended: in a pull request with no comment and with labels, every
\* step is enabled, whether or not its label is one of the labels.
C4_NoCommentEnablesSteps ==
    (is_pr /\ NoComment /\ ~NoLabels /\ StepCalled) => call.ret = "True"

\* Labels {"filebeat-unitTest"}, the step unitTest of metricbeat.
C4_Witness ==
    /\ is_pr /\ NoComment
    /\ GITHUB_PR_LABELS = Some(s_filebeat \o <<"-">> \o s_unitTest)
    /\ StepCalled
    /\ call.step.project = s_metricbeat
    /\ call.step.name = s_unitTest
    /\ call.ret = "True"

\* C5, as claimed: in a pull request a group is enabled exactly when the
\* changeset matches and the category starts with "mandatory", or the
\* group is mandatory and the comment equals "buildkite test {project}",
\* or the group is not mandatory and the comment contains "buildkite test
\* {project} {category}".
C5_GroupRule ==
    (is_pr /\ GroupCalled)
        => (IsTrue(call.ret) <=>
                \/ /\ ChangesetMatches
                   /\ StartsWith(call.group.category, s_mandatory)
                \/ /\ call.group.category = s_mandatory
                   /\ CommentIs(TestProject(call.group.project))
                \/ /\ call.group.category # s_mandatory
                   /\ CommentContains(Words2(TestProject(call.group.project),
                                             call.group.category)))

\* C5, amended: as claimed, but a mandatory group is enabled by a comment
\* that contains "buildkite test {project}" anywhere, not only by the
\* comment equal to it.
C5_GroupRuleContains ==
    (is_pr /\ GroupCalled)
        => (IsTrue(call.ret) <=>
                \/ /\ ChangesetMatches
                   /\ StartsWith(call.group.category, s_mandatory)
                \/ /\ call.group.category = s_mandatory
                   /\ CommentContains(TestProject(call.group.project))
                \/ /\ call.group.category # s_mandatory
                   /\ CommentContains(Words2(TestProject(call.group.project),
                                             call.group.category)))

\* The comment "buildkite test filebeat unitTest" enables the mandatory
\* group of filebeat without a changeset match.
C5_Witness ==
    /\ is_pr
    /\ GroupCalled
    /\ CommentIs(Words3(s_buildkite_test, s_filebeat, s_unitTest))
    /\ call.group.project = s_filebeat
    /\ call.group.category = s_mandatory
    /\ ~ChangesetMatches
    /\ call.ret = "True"

---------------------------------------------------------------------------
(* Properties of a run of main(), over Spec.                               *)

Exists(project) == project_files[project].exists

\* The pipeline document is the last thing main() prints.
Printed == stdout[Len(stdout)].data

\* C6, as claimed: the "steps" list of the printed pipeline has one entry
\* for each group of the pipeline with a step, and no entry, not even a
\* null one, for a group without steps.
C6_EmptyGroupsVanish ==
    pc = "done"
        => /\ \A k \in 1..Len(Printed) : ~Printed[k].is_none
           /\ Len(Printed) =
                  Cardinality({k \in 1..Len(all_groups) :
                                   all_groups[k].steps # <<>>})

\* C7: the list handed to Pipeline holds every surviving group once, the
\* mandatory groups before the extended ones, each block in non-decreasing
\* order of project name, groups of one project in discovery order.
C7_MergedOrder ==
    /\ \A a, b \in 1..Len(all_groups) :
           a < b =>
               LET first == all_groups[a]
                   second == all_groups[b]
               IN  /\ ~(first.category = s_extended
                           /\ second.category = s_mandatory)
                   /\ first.category = second.category
                          => ~StrLt(second.project, first.project)
                   /\ (first.category = second.category
                          /\ first.project = second.project)
                          => first.id < second.id
    /\ pc = "done" =>
           /\ Len(all_groups) = Len(groups) + Len(extended_groups)
           /\ \A k \in 1..Len(groups) : InList(groups[k], all_groups)
           /\ \A k \in 1..Len(extended_groups) :
                  InList(extended_groups[k], all_groups)

\* metricbeat listed before filebeat and once more after it: the sort
\* moves filebeat's groups forward and keeps metricbeat's two in order.
C7_Witness ==
    /\ pc = "done"
    /\ doc = <<s_metricbeat, s_filebeat, s_metricbeat>>
    /\ Len(groups) = 3
    /\ Len(extended_groups) = 3
    /\ Len(all_groups) = 6
    /\ all_groups[1].project = s_filebeat
    /\ all_groups[2].id < all_groups[3].id
    /\ all_groups[4].category = s_extended

\* C8, as claimed: in one run the external diff command runs at most once.
C8_DiffRunsOnce == diff_runs <= 1

\* C9: a declared project without manifest file is skipped: the loop goes
\* on to the next project with nothing raised, no group added, no
\* selection function called and nothing printed; the accumulators, the
\* merged list and the selection calls are about projects whose manifest
\* file exists.
C9_MissingSkipped ==
    /\ [][(/\ pc = "loop"
           /\ next_project <= Len(doc)
           /\ ~Exists(doc[next_project]))
              => /\ pc' = "loop"
                 /\ next_project' = next_project + 1
                 /\ raised' = ""
                 /\ UNCHANGED <<groups, extended_groups, selected, stdout,
                                changed_files, diff_runs>>]_vars
    /\ [](/\ \A k \in 1..Len(groups) : Exists(groups[k].project)
          /\ \A k \in 1..Len(extended_groups) :
                 Exists(extended_groups[k].project)
          /\ \A k \in 1..Len(all_groups) : Exists(all_groups[k].project)
          /\ \A k \in selected : Exists(doc[k]))

\* A missing manifest first, then a project with one: the run ends with
\* groups of the second project only.
C9_Witness ==
    /\ pc = "done"
    /\ Len(doc) = 2
    /\ ~Exists(doc[1])
    /\ Exists(doc[2])
    /\ selected = {2}
    /\ Len(all_groups) = 2
    /\ \A k \in 1..Len(all_groups) : all_groups[k].project = doc[2]

\* C10, as claimed: a run that a malformed manifest aborts has written
\* nothing to standard output.
C10_NoOutputOnAbort == (pc = "aborted" /\ raised = "KeyError") => stdout = <<>>

===========================================================================
